---- MODULE Spec2Model ----
(***************************************************************************)
(* Model of the x-agent content-curation pipeline: the aggregation         *)
(* provider (services/reddit_provider.py), the ranking filter              *)
(* (services/ai_filter.py), the editorial judge, the notifier, the         *)
(* orchestrator ContentCurator.run_pipeline (core/curator.py) and the      *)
(* entry point main (main.py).                                             *)
(*                                                                         *)
(* Optional Python values (None, {}) are sequences of length 0 or 1.       *)
(* Costs are integers in units of 1e-8 USD, so that every per-token rate   *)
(* of the source is an integer.                                            *)
(***************************************************************************)
EXTENDS Integers, Sequences, FiniteSets, TLC

VARIABLES
    pc,                 \* position of the run
    feeds,              \* what each community's feed request answers (environment)
    posts_per_sub,      \* run_pipeline's posts_per_sub argument
    sub_i,              \* position of fetch_all's loop over the communities
    fetched,            \* result of the last fetch_subreddit_posts call
    all_posts,          \* curator.py:38
    response,           \* the ranking model's answer to filter's request
    ranked_data,        \* curator.py:48
    idx,                \* 1-based position of the loop in ranked_data[:10]
    current_thread,     \* curator.py:87 (0 or 1 element)
    approved_threads,   \* curator.py:61
    best_thread_so_far, \* curator.py:62 (0 or 1 element)
    best_judge_score,   \* curator.py:63
    usage_stats,        \* curator.py:28
    has_token,          \* TelegramNotifier.bot_token is set
    has_chat,           \* TelegramNotifier.chat_id is set
    send_k,             \* position of notify_all's loop
    calls,              \* number of calls made to each collaborator
    result,             \* run_pipeline's return value (0 or 1 element)
    error,              \* the exception that left run_pipeline ("" if none)
    visited,            \* ranked positions the loop has looked at, in order
    generated,          \* history: rank and emptiness of each generation result
    judged,             \* history: rank, score and outcome of each judgment
    last_decision,      \* the last EditorialDecision returned (0 or 1 element)
    last_notice,        \* the last rejection notice issued (0 or 1 element)
    merged,             \* history: the usage records merged, with the cost applied
    sent,               \* history: what each completed send_thread call returned
    text,               \* the last text send_thread handed to requests.post (0 or 1 element)
    subreddits,         \* main.py:19, run_pipeline's subreddits argument
    main,               \* main(): the SUBREDDITS setting, the curator, the audit, the error
    judge_answer        \* the judge model's answer to the last evaluate call (0 or 1 element)

vars == <<pc, feeds, posts_per_sub, sub_i, fetched, all_posts, response, ranked_data,
          idx, current_thread, approved_threads, best_thread_so_far,
          best_judge_score, usage_stats, has_token, has_chat, send_k, calls,
          result, error, visited, generated, judged, last_decision, last_notice,
          merged, sent, text, subreddits, main, judge_answer>>

(***************************************************************************)
(* Bounds of the model                                                     *)
(***************************************************************************)
MaxFeed == 3        \* entries in one community feed
MaxLimit == 2       \* largest per-community limit explored
MaxScore == 2       \* ranking scores are 0..MaxScore (the prompt's 0..100)
MaxFree == 1        \* ranked lists up to this length have arbitrary entries
MaxResp == 16       \* longest ranked list given to filter on its own
MaxMerges == 2      \* usage merges in one ledger history
MaxTok == 2         \* largest token count of a usage record
MaxOver == 25       \* composed messages run from MaxOver below to MaxOver above the limit

(***************************************************************************)
(* Program constants                                                       *)
(***************************************************************************)
RANK_CAP == 15              \* ai_filter.py:91   ranked_posts[:15]
MAX_CANDIDATES == 10        \* curator.py:66     ranked_data[:10]
QUOTA == 3                  \* curator.py:95     len(approved_threads) >= 3
NO_SCORE == -1              \* curator.py:63     best_judge_score = -1.0
HTTP_OK == 200              \* reddit_provider.py:34
MESSAGE_LIMIT == 4000       \* telegram_notifier.py:48  len(full_message) > 4000
KEPT_CHARS == 3997          \* telegram_notifier.py:49  full_message[:3997]
DASHES == 20                \* telegram_notifier.py:37  '-'*20
MINI_PROMPT_RATE == 15      \* 0.15 USD per 1e6 prompt tokens
MINI_COMPLETION_RATE == 60  \* 0.60 USD per 1e6 completion tokens
BIG_PROMPT_RATE == 1000     \* 10.0 USD per 1e6 prompt tokens
BIG_COMPLETION_RATE == 3000 \* 30.0 USD per 1e6 completion tokens

(***************************************************************************)
(* Strings as sequences of characters: str.lower() and the `in` operator   *)
(***************************************************************************)
UpperChars == <<"A", "B", "D", "E", "M", "O", "R", "T", "U">>
LowerOf == <<"a", "b", "d", "e", "m", "o", "r", "t", "u">>

LowerChar(c) ==
    IF \E k \in 1..Len(UpperChars) : UpperChars[k] = c
    THEN LowerOf[CHOOSE k \in 1..Len(UpperChars) : UpperChars[k] = c]
    ELSE c

Lower(s) == [k \in 1..Len(s) |-> LowerChar(s[k])]

Contains(needle, hay) ==
    \E k \in 1..(Len(hay) - Len(needle) + 1) :
        SubSeq(hay, k, k + Len(needle) - 1) = needle

S_automoderator == <<"a","u","t","o","m","o","d","e","r","a","t","o","r">>
S_moderator == <<"m","o","d","e","r","a","t","o","r">>

\* Authors a feed entry can carry; <<>> stands for an entry without author.
AutoModerator == <<"A","u","t","o","M","o","d","e","r","a","t","o","r">>
AUTOMODERATOR == <<"A","U","T","O","M","O","D","E","R","A","T","O","R">>
TheModerator == <<"T","h","e","M","o","d","e","r","a","t","o","r">>
alice == <<"a","l","i","c","e">>
bob == <<"B","o","b">>
unknown == <<"u","n","k","n","o","w","n">>
NoAuthor == <<>>
\* Links are numbered; link k is the k-th distinct URL.

(***************************************************************************)
(* Aggregation provider: services/reddit_provider.py                       *)
(***************************************************************************)
\* hashlib.md5(link.encode()).hexdigest()[:10]: a fixed function of the link.
PostId(link) == <<"md5", link>>

\* entry.get('author', 'unknown')
AuthorOf(entry) == IF entry.author = NoAuthor THEN unknown ELSE entry.author

\* The author is not lower-cased before the test.
IsModeratorCaseSensitive(author) ==
    \/ Contains(S_automoderator, author)
    \/ Contains(S_moderator, author)

\* The test of reddit_provider.py:44.
IsModerator(author) ==
    \/ Contains(S_automoderator, Lower(author))
    \/ Contains(S_moderator, Lower(author))

MakePost(entry, subreddit) ==
    [id |-> PostId(entry.link), link |-> entry.link, author |-> AuthorOf(entry),
     subreddit |-> subreddit, enriched |-> 0]

\* The for loop of fetch_subreddit_posts from entry k on, posts collected so
\* far in `posts` (count = Len(posts)).  A fault while entry fault_at is
\* processed leaves the loop through the except clause, which logs and falls
\* through to `return posts`.
RECURSIVE FetchLoop(_, _, _, _, _)
FetchLoop(feed, subreddit, limit, k, posts) ==
    IF k > Len(feed.entries) THEN posts
    ELSE IF Len(posts) >= limit THEN posts
    ELSE IF feed.fault_at = k THEN posts
    ELSE IF IsModerator(AuthorOf(feed.entries[k]))
         THEN FetchLoop(feed, subreddit, limit, k + 1, posts)
         ELSE FetchLoop(feed, subreddit, limit, k + 1,
                        Append(posts, MakePost(feed.entries[k], subreddit)))

\* A fault inside the loop throws away the posts collected before it.
FetchSubredditPostsDiscarding(feed, subreddit, limit) ==
    IF feed.raises THEN <<>>
    ELSE IF feed.status # HTTP_OK THEN <<>>
    ELSE IF FetchLoop(feed, subreddit, limit, 1, <<>>)
              # FetchLoop([feed EXCEPT !.fault_at = 0], subreddit, limit, 1, <<>>)
         THEN <<>>
         ELSE FetchLoop(feed, subreddit, limit, 1, <<>>)

FetchSubredditPosts(feed, subreddit, limit) ==
    IF feed.raises THEN <<>>                      \* requests.get / parse fault
    ELSE IF feed.status # HTTP_OK THEN <<>>       \* reddit_provider.py:34-36
    ELSE FetchLoop(feed, subreddit, limit, 1, <<>>)

Subreddits == <<"a", "b">>

(***************************************************************************)
(* Usage ledger: ContentCurator._update_usage (core/curator.py)            *)
(***************************************************************************)
FILTER_MODEL == "gpt-5-mini"    \* curator.py:16
THREAD_MODEL == "gpt-5.2"       \* curator.py:16
JUDGE_MODEL == "gpt-5.2"        \* curator.py:22

ModelNames == {"gpt-5-mini", "gpt-5.2", "gpt-5-mini-2025", "claude"}

\* "gpt-5-mini" in model, "gpt-5.2" in model: the substring tests of
\* curator.py:166 and 168, tabulated on ModelNames.
MatchesMini(model) == model \in {"gpt-5-mini", "gpt-5-mini-2025"}
MatchesBig(model) == model \in {"gpt-5.2"}

ZeroBucket == [prompt |-> 0, completion |-> 0, total |-> 0, cost |-> 0]

\* usage_stats of curator.py:28-32
InitialUsage ==
    [by_model |-> [m \in {"gpt-5-mini", "gpt-5.2"} |-> ZeroBucket], total_cost |-> 0]

\* usage_data.get("cost", 0.0)
GivenCost(u) == IF u.cost = <<>> THEN 0 ELSE u.cost[1]

\* curator.py:164-169: the cost applied for one usage record
AppliedCost(u) ==
    IF GivenCost(u) # 0 THEN GivenCost(u)
    ELSE IF MatchesMini(u.model)
         THEN u.prompt_tokens * MINI_PROMPT_RATE + u.completion_tokens * MINI_COMPLETION_RATE
    ELSE IF MatchesBig(u.model)
         THEN u.prompt_tokens * BIG_PROMPT_RATE + u.completion_tokens * BIG_COMPLETION_RATE
    ELSE GivenCost(u)

\* The bucket is overwritten instead of added to.
UpdateUsageOverwrite(stats, u) ==
    [by_model |-> [m \in DOMAIN stats.by_model \cup {u.model} |->
                      IF m = u.model
                      THEN [prompt |-> u.prompt_tokens, completion |-> u.completion_tokens,
                            total |-> u.total_tokens, cost |-> AppliedCost(u)]
                      ELSE stats.by_model[m]],
     total_cost |-> stats.total_cost + AppliedCost(u)]

UpdateUsage(stats, u) ==
    LET buckets == IF u.model \in DOMAIN stats.by_model
                   THEN stats.by_model
                   ELSE [m \in DOMAIN stats.by_model \cup {u.model} |->
                            IF m = u.model THEN ZeroBucket ELSE stats.by_model[m]]
        old == buckets[u.model]
        cost == AppliedCost(u)
    IN  [by_model |-> [buckets EXCEPT ![u.model] =
                          [prompt |-> old.prompt + u.prompt_tokens,
                           completion |-> old.completion + u.completion_tokens,
                           total |-> old.total + u.total_tokens,
                           cost |-> old.cost + cost]],
         total_cost |-> stats.total_cost + cost]

\* `if usage: self._update_usage(usage_stats, usage)`; usage is <<>> for {}
MergeIfAny(stats, usage) ==
    IF usage = <<>> THEN stats ELSE UpdateUsage(stats, usage[1])

(***************************************************************************)
(* Ranking filter: AIFilter.filter (services/ai_filter.py)                 *)
(***************************************************************************)
Prefix(s, n) == SubSeq(s, 1, IF Len(s) < n THEN Len(s) ELSE n)

\* The cap is forgotten.
FilterUncapped(posts, resp) ==
    IF resp.fails THEN [ranked |-> <<>>, usage |-> <<>>]
    ELSE [ranked |-> resp.ranked_posts, usage |-> <<>>]

\* A model answer is [fails, ranked_posts, prompt_tokens, completion_tokens];
\* fails covers a request error and an undecodable body.
Filter(posts, resp) ==
    IF resp.fails THEN [ranked |-> <<>>, usage |-> <<>>]
    ELSE [ranked |-> Prefix(resp.ranked_posts, RANK_CAP),
          usage |-> << [model |-> FILTER_MODEL,
                        prompt_tokens |-> resp.prompt_tokens,
                        completion_tokens |-> resp.completion_tokens,
                        total_tokens |-> resp.prompt_tokens + resp.completion_tokens,
                        cost |-> << resp.prompt_tokens * MINI_PROMPT_RATE
                                    + resp.completion_tokens * MINI_COMPLETION_RATE >>] >>]

(***************************************************************************)
(* Thread generator: ThreadGenerator.generate_threads                      *)
(***************************************************************************)
\* An answer is [fails, selected_threads, prompt_tokens, completion_tokens].
GenerateThreads(gresp) ==
    IF gresp.fails THEN [selected_threads |-> <<>>, usage |-> <<>>]
    ELSE [selected_threads |-> gresp.selected_threads,
          usage |-> << [model |-> THREAD_MODEL,
                        prompt_tokens |-> gresp.prompt_tokens,
                        completion_tokens |-> gresp.completion_tokens,
                        total_tokens |-> gresp.prompt_tokens + gresp.completion_tokens,
                        cost |-> << gresp.prompt_tokens * BIG_PROMPT_RATE
                                    + gresp.completion_tokens * BIG_COMPLETION_RATE >>] >>]

(***************************************************************************)
(* Editorial judge: EditorialJudge.evaluate                                *)
(***************************************************************************)
\* An answer is [fails, action, confidence, weakness, prompt_tokens,
\* completion_tokens]; fails covers a request error and an undecodable body;
\* action, confidence and weakness are <<>> when the JSON object lacks the
\* field.  NULL is the JSON null.
NULL == "(null)"
NumericTexts == {"0.9", "1"}

\* float(raw_result.get("confidence", 0.0)) raises (editorial_judge.py:76)
FloatRaises(confidence) == confidence # <<>> /\ confidence[1] \notin NumericTexts

\* decision.action.upper() raises (editorial_judge.py:81)
UpperRaises(action) == action = <<NULL>>

\* The decision of the except clause (editorial_judge.py:90-92)
EvaluateFailed ==
    [decision |-> [action |-> "abort", weakness |-> "error text"], usage |-> <<>>]

\* A response without action field is taken for an acceptance.
EvaluateDefaultAccept(jresp) ==
    IF jresp.fails \/ FloatRaises(jresp.confidence) \/ UpperRaises(jresp.action)
    THEN EvaluateFailed
    ELSE [decision |->
            [action |-> IF jresp.action = <<>> THEN "accept" ELSE jresp.action[1],
             weakness |-> IF jresp.weakness = <<>> THEN "No weakness provided"
                          ELSE jresp.weakness[1]],
          usage |-> << [model |-> JUDGE_MODEL,
                        prompt_tokens |-> jresp.prompt_tokens,
                        completion_tokens |-> jresp.completion_tokens,
                        total_tokens |-> jresp.prompt_tokens + jresp.completion_tokens,
                        cost |-> <<>>] >>]

Evaluate(jresp) ==
    IF jresp.fails \/ FloatRaises(jresp.confidence) \/ UpperRaises(jresp.action)
    THEN EvaluateFailed
    ELSE [decision |->
            [action |-> IF jresp.action = <<>> THEN "abort" ELSE jresp.action[1],
             weakness |-> IF jresp.weakness = <<>> THEN "No weakness provided"
                          ELSE jresp.weakness[1]],
          usage |-> << [model |-> JUDGE_MODEL,
                        prompt_tokens |-> jresp.prompt_tokens,
                        completion_tokens |-> jresp.completion_tokens,
                        total_tokens |-> jresp.prompt_tokens + jresp.completion_tokens,
                        cost |-> <<>>] >>]

(***************************************************************************)
(* Notifier: services/telegram_notifier.py                                 *)
(***************************************************************************)
\* Sending is refused only when both credentials are absent.
CredentialsMissingBoth(token, chat) == ~token /\ ~chat

\* `not self.bot_token or not self.chat_id`
CredentialsMissing(token, chat) == ~token \/ ~chat

\* send_thread up to the delivery call: TRUE when it goes on to requests.post
SendThreadDelivers(thread, token, chat) ==
    IF CredentialsMissing(token, chat) THEN FALSE
    ELSE IF thread.tweets = <<>> THEN FALSE
    ELSE TRUE

\* send_rejection_notice up to the delivery call
NoticeDelivers(token, chat) == ~CredentialsMissing(token, chat)

\* Texts are sequences of characters (one element per code point).
Repeat(c, n) == [k \in 1..n |-> c]
Digits == <<"0", "1", "2", "3", "4", "5", "6", "7", "8", "9">>

\* str(n) for n >= 0
RECURSIVE Decimal(_)
Decimal(n) ==
    IF n < 10 THEN <<Digits[n + 1]>>
    ELSE Decimal(n \div 10) \o <<Digits[(n % 10) + 1]>>

\* A character the module's strings cannot spell is named by its code point.
BOOK == "U+1F4D6"
TICK == "U+0060"

\* The header (telegram_notifier.py:37): the book sign, " *THREAD FOR: ", the
\* title, "*", newline, '-'*20, newline.
Header(title) ==
    <<BOOK, " ", "*", "T", "H", "R", "E", "A", "D", " ", "F", "O", "R", ":", " ">>
    \o title \o <<"*", "\n">> \o Repeat("-", DASHES) \o <<"\n">>

\* The chunk of tweet number n = i + 1 (telegram_notifier.py:43):
\* Tweet n, colon, newline, three back quotes, newline, the tweet, newline,
\* three back quotes.
Chunk(n, tweet) ==
    <<"T", "w", "e", "e", "t", " ">> \o Decimal(n) \o <<":", "\n", TICK, TICK, TICK, "\n">>
    \o tweet \o <<"\n", TICK, TICK, TICK>>

\* sep.join(chunks)
RECURSIVE Join(_, _)
Join(sep, chunks) ==
    IF chunks = <<>> THEN <<>>
    ELSE IF Len(chunks) = 1 THEN chunks[1]
    ELSE chunks[1] \o sep \o Join(sep, Tail(chunks))

\* full_message of telegram_notifier.py:45
FullMessage(thread) ==
    Header(thread.post_title)
    \o Join(<<"\n", "\n">>, [i \in 1..Len(thread.tweets) |-> Chunk(i, thread.tweets[i])])

\* The message is cut at the limit itself before the ellipsis is added.
TruncateAtLimit(full) ==
    IF Len(full) > MESSAGE_LIMIT
    THEN SubSeq(full, 1, MESSAGE_LIMIT) \o <<".", ".", ".">>
    ELSE full

\* telegram_notifier.py:48-49
Truncate(full) ==
    IF Len(full) > MESSAGE_LIMIT
    THEN SubSeq(full, 1, KEPT_CHARS) \o <<".", ".", ".">>
    ELSE full

\* payload["text"] of telegram_notifier.py:51-55
PayloadText(thread) == Truncate(FullMessage(thread))

(***************************************************************************)
(* Orchestrator: ContentCurator (core/curator.py)                          *)
(***************************************************************************)
NoCalls ==
    [filter |-> 0, extract |-> 0, generate |-> 0, judge |-> 0, notice |-> 0,
     notify_all |-> 0, send_thread |-> 0, post |-> 0, revise |-> 0]

\* The slice is forgotten.
CandidatesUncut(ranked) == ranked

\* ranked_data[:10]
Candidates(ranked) == Prefix(ranked, MAX_CANDIDATES)

\* next((p for p in all_posts if p.id == post_id), None): the position of the
\* first post with that id, 0 for None.
Resolve(posts, post_id) ==
    IF \E j \in 1..Len(posts) : posts[j].id = post_id
    THEN CHOOSE j \in 1..Len(posts) :
            /\ posts[j].id = post_id
            /\ \A h \in 1..(j - 1) : posts[h].id # post_id
    ELSE 0

\* A revise verdict starts a revision instead of a rejection notice.
ProcessSingleThreadRevising(thread, stats, jresp) ==
    LET ev == Evaluate(jresp)
        stats1 == MergeIfAny(stats, ev.usage)
    IN  [thread |-> thread, approved |-> ev.decision.action = "accept", stats |-> stats1,
         decision |-> ev.decision,
         notices |-> IF ev.decision.action \in {"accept", "revise"} THEN <<>>
                     ELSE << [title |-> thread.post_title, reason |-> ev.decision.weakness] >>,
         revisions |-> IF ev.decision.action = "revise" THEN 1 ELSE 0]

\* _process_single_thread: one judgment, a rejection notice unless accepted.
ProcessSingleThread(thread, stats, jresp) ==
    LET ev == Evaluate(jresp)
        stats1 == MergeIfAny(stats, ev.usage)
    IN  IF ev.decision.action = "accept"
        THEN [thread |-> thread, approved |-> TRUE, stats |-> stats1,
              decision |-> ev.decision, notices |-> <<>>, revisions |-> 0]
        ELSE [thread |-> thread, approved |-> FALSE, stats |-> stats1,
              decision |-> ev.decision,
              notices |-> << [title |-> thread.post_title,
                              reason |-> ev.decision.weakness] >>,
              revisions |-> 0]

\* The test is dropped: the run goes on without posts.
NothingAggregatedIgnored(posts) == FALSE

\* `if not all_posts` (curator.py:41)
NothingAggregated(posts) == posts = <<>>

\* The test is dropped: the loop is entered with an empty ranking.
NothingRankedIgnored(ranked) == FALSE

\* `if not ranked_data` (curator.py:52)
NothingRanked(ranked) == ranked = <<>>

\* A tie replaces the retained thread.
BeatsBestOrTies(score, best) == score >= best

\* `if score > best_judge_score` (curator.py:101)
BeatsBest(score, best) == score > best

\* Off by one: the quota test lets a fourth thread in.
QuotaReachedLate(approved) == Len(approved) > QUOTA

\* `if len(approved_threads) >= 3` (curator.py:95)
QuotaReached(approved) == Len(approved) >= QUOTA

\* The retained thread is appended whether or not a thread was approved.
WithFallbackAlways(approved, best) ==
    IF best # <<>> THEN approved \o best ELSE approved

\* `if not approved_threads and best_thread_so_far` (curator.py:106-110)
WithFallback(approved, best) ==
    IF approved = <<>> /\ best # <<>> THEN approved \o best ELSE approved

Return(approved, stats) == << [posts |-> <<>>, selected_threads |-> approved, usage |-> stats] >>

(***************************************************************************)
(* Entry point: main (main.py)                                             *)
(***************************************************************************)
\* The characters str.strip() removes, as far as the settings explored go.
Whitespace == {" ", "\t", "\n"}

RECURSIVE StripLeft(_)
StripLeft(s) == IF s # <<>> /\ s[1] \in Whitespace THEN StripLeft(Tail(s)) ELSE s

RECURSIVE StripRight(_)
StripRight(s) ==
    IF s # <<>> /\ s[Len(s)] \in Whitespace
    THEN StripRight(SubSeq(s, 1, Len(s) - 1))
    ELSE s

\* s.strip()
Strip(s) == StripRight(StripLeft(s))

\* s.split(sep): the pieces between the separators, one piece at least
RECURSIVE Split(_, _)
Split(s, sep) ==
    IF \E k \in 1..Len(s) : s[k] = sep
    THEN LET k == CHOOSE i \in 1..Len(s) : s[i] = sep /\ \A h \in 1..(i - 1) : s[h] # sep
         IN  <<SubSeq(s, 1, k - 1)>> \o Split(SubSeq(s, k + 1, Len(s)), sep)
    ELSE <<s>>

\* The community named by a piece: the names explored are one letter long.
Str(chars) == CHOOSE name \in {"a", "b"} : <<name>> = chars

StripsToSomething(piece) == Strip(piece) # <<>>

\* [s.strip() for s in subreddits_env.split(",") if s.strip()]   (main.py:19)
ParseSubreddits(env) ==
    LET kept == SelectSeq(Split(env, ","), StripsToSomething)
    IN  [k \in 1..Len(kept) |-> Str(Strip(kept[k]))]

\* `if not subreddits_env` (main.py:16): None or the empty string
SettingMissing(env) == env = <<>> \/ env[1] = <<>>

\* A cost as "{:.6f}" prints it: in units of 1e-6 USD, rounded to the nearest.
SixDecimals(cost) == (cost + 50) \div 100

\* The grand total is left out of the audit.
AuditOfLinesOnly(usage) ==
    [lines |-> [m \in DOMAIN usage.by_model |->
                  [total |-> usage.by_model[m].total, prompt |-> usage.by_model[m].prompt,
                   completion |-> usage.by_model[m].completion,
                   cost |-> SixDecimals(usage.by_model[m].cost)]],
     grand_total |-> <<>>]

\* main.py:45-60: one line per model, then the grand total
AuditOf(usage) ==
    [lines |-> [m \in DOMAIN usage.by_model |->
                  [total |-> usage.by_model[m].total, prompt |-> usage.by_model[m].prompt,
                   completion |-> usage.by_model[m].completion,
                   cost |-> SixDecimals(usage.by_model[m].cost)]],
     grand_total |-> <<SixDecimals(usage.total_cost)>>]

\* The setting under which the communities are Subreddits.
DefaultSetting == <<" ", "a", ",", " ", "b", " ", ",">>

\* main() before it has done anything, SUBREDDITS being env.
MainAt(env) == [env |-> env, curator |-> FALSE, started |-> FALSE, audit |-> <<>>, raised |-> ""]

\* main() has called run_pipeline with Subreddits.
PipelineStarted ==
    /\ subreddits = Subreddits
    /\ main = [MainAt(<<DefaultSetting>>) EXCEPT !.curator = TRUE, !.started = TRUE]

(***************************************************************************)
(* The environment: feeds and model answers                                *)
(***************************************************************************)
SeqsUpTo(S, n) == UNION {[1..m -> S] : m \in 0..n}

FeedEntry(author, link) == [author |-> author, link |-> link]
Feed(entries) == [status |-> HTTP_OK, raises |-> FALSE, entries |-> entries, fault_at |-> 0]
FeedDown == [status |-> 404, raises |-> FALSE, entries |-> <<>>, fault_at |-> 0]

\* The feeds one pipeline run can meet.
PipelineFeeds ==
    { [s \in {"a", "b"} |-> FeedDown],
      [s \in {"a", "b"} |-> IF s = "a" THEN Feed(<<FeedEntry(alice, 1)>>) ELSE Feed(<<>>)],
      [s \in {"a", "b"} |->
          IF s = "a"
          THEN Feed(<<FeedEntry(alice, 1), FeedEntry(AutoModerator, 3), FeedEntry(bob, 2)>>)
          ELSE FeedDown],
      [s \in {"a", "b"} |->
          IF s = "a"
          THEN Feed(<<FeedEntry(alice, 1)>>)
          ELSE Feed(<<FeedEntry(bob, 1), FeedEntry(NoAuthor, 2)>>)] }

\* The feeds fetch_subreddit_posts is explored on: every author sequence up to
\* MaxFeed entries, entry k carrying link k.
FetchAuthors == {AutoModerator, AUTOMODERATOR, TheModerator, alice, NoAuthor}
FetchFeeds ==
    { [status |-> c[1], raises |-> c[2],
       entries |-> [k \in 1..Len(a) |-> FeedEntry(a[k], k)], fault_at |-> f] :
        c \in {<<HTTP_OK, FALSE>>, <<404, FALSE>>, <<HTTP_OK, TRUE>>},
        a \in SeqsUpTo(FetchAuthors, MaxFeed),
        f \in 0..MaxFeed }

Scores == 0..MaxScore
GhostId == PostId(0)        \* an id the model invents: no aggregated post has it
RankEntry(id, score) == [id |-> id, score |-> score]

\* Ranked lists of a pipeline run: every list of at most MaxFree entries over
\* two post ids, and lists of QUOTA + 1 entries alternating the two ids, with
\* rising, falling or equal scores, after 0 or MAX_CANDIDATES - 2 entries
\* whose id no post has (the last two then lie beyond the loop's range).
FreeLists == SeqsUpTo({RankEntry(PostId(l), sc) : l \in {1, 2}, sc \in Scores}, MaxFree)
Pad(g) == [k \in 1..g |-> RankEntry(GhostId, MaxScore)]
Core(n, base) ==
    [k \in 1..n |-> RankEntry(PostId(IF k % 2 = 1 THEN 1 ELSE 2), base[((k - 1) % 2) + 1])]
LongLists ==
    { Pad(g) \o Core(QUOTA + 1, base) :
        g \in {0, MAX_CANDIDATES - 2},
        base \in {<<0, MaxScore>>, <<MaxScore, 0>>, <<MaxScore, MaxScore>>} }

FilterFailure == [fails |-> TRUE, ranked_posts |-> <<>>, prompt_tokens |-> 0, completion_tokens |-> 0]
FilterAnswer(list) ==
    [fails |-> FALSE, ranked_posts |-> list, prompt_tokens |-> MaxTok, completion_tokens |-> 1]
RankingAnswers == {FilterFailure} \cup {FilterAnswer(l) : l \in FreeLists \cup LongLists}

\* Ranked lists for filter on its own, as answers to the request made for
\* `posts`: every list of at most MaxResp entries scored 0 or 1, the entries
\* naming the posts in turn.
FilterLists(posts) ==
    { [k \in 1..Len(sc) |-> RankEntry(posts[((k - 1) % Len(posts)) + 1].id, sc[k])] :
        sc \in SeqsUpTo({0, 1}, MaxResp) }
FilterAnswers(posts) == {FilterFailure} \cup {FilterAnswer(l) : l \in FilterLists(posts)}

\* The title the generator gives the thread of the post with link n.
ThreadTitle(n) == <<"P", "o", "s", "t", " ">> \o Decimal(n)
Thread(post, k, tweets) ==
    [post_id |-> post.id, post_title |-> ThreadTitle(post.link), tweets |-> tweets,
     serial |-> k]
SomeTweets == << <<"h", "o", "o", "k">>, <<"1", "/", "1">> >>
GenFailure == [fails |-> TRUE, selected_threads |-> <<>>, prompt_tokens |-> 0, completion_tokens |-> 0]
GenAnswer(threads) ==
    [fails |-> FALSE, selected_threads |-> threads, prompt_tokens |-> MaxTok, completion_tokens |-> 1]
\* The answers to the generation request made for `post` at ranked position k.
GenAnswers(post, k) ==
    {GenFailure} \cup
    { GenAnswer(t) : t \in { <<>>,
                             <<Thread(post, k, SomeTweets)>>,
                             <<Thread(post, k, <<>>)>>,
                             <<Thread(post, k, SomeTweets), Thread(post, k, <<>>)>> } }

JudgeFailure ==
    [fails |-> TRUE, action |-> <<>>, confidence |-> <<>>, weakness |-> <<>>,
     prompt_tokens |-> 0, completion_tokens |-> 0]
JudgeAnswer(action, weakness) ==
    [fails |-> FALSE, action |-> action, confidence |-> <<>>, weakness |-> weakness,
     prompt_tokens |-> MaxTok, completion_tokens |-> 1]
JudgeAnswers ==
    { JudgeFailure, JudgeAnswer(<<>>, <<>>), JudgeAnswer(<<"accept">>, <<"weak hook">>),
      JudgeAnswer(<<"revise">>, <<"weak hook">>), JudgeAnswer(<<"abort">>, <<"weak hook">>) }

\* The answers evaluate is explored on, on its own: those above, an action
\* in another letter case, a null action, a numeric and a non-numeric
\* confidence.
WideJudgeAnswers ==
    JudgeAnswers \cup
    { JudgeAnswer(<<"Accept">>, <<"weak hook">>),
      JudgeAnswer(<<NULL>>, <<"weak hook">>),
      [JudgeAnswer(<<"accept">>, <<>>) EXCEPT !.confidence = <<"0.9">>],
      [JudgeAnswer(<<"accept">>, <<>>) EXCEPT !.confidence = <<"high">>] }

\* Usage records merged into a ledger on its own.
UsageRecords ==
    { [model |-> m, prompt_tokens |-> p, completion_tokens |-> c,
       total_tokens |-> p + c, cost |-> k] :
        m \in ModelNames, p \in {0, MaxTok}, c \in {0, 1},
        k \in {<<>>, <<0>>, <<7>>} }

(***************************************************************************)
(* run_pipeline, step by step                                              *)
(***************************************************************************)
Idle ==
    /\ sub_i = 1 /\ fetched = <<>> /\ all_posts = <<>>
    /\ response = <<>> /\ ranked_data = <<>> /\ idx = 1
    /\ current_thread = <<>> /\ approved_threads = <<>>
    /\ best_thread_so_far = <<>> /\ best_judge_score = NO_SCORE
    /\ usage_stats = InitialUsage
    /\ send_k = 1 /\ calls = NoCalls /\ result = <<>> /\ error = ""
    /\ visited = <<>> /\ generated = <<>> /\ judged = <<>> /\ last_decision = <<>> /\ last_notice = <<>> /\ merged = <<>>
    /\ sent = <<>> /\ text = <<>> /\ judge_answer = <<>>

Init ==
    /\ pc = "aggregate"
    /\ feeds \in PipelineFeeds
    /\ posts_per_sub = MaxLimit
    /\ has_token \in BOOLEAN /\ has_chat \in BOOLEAN
    /\ Idle /\ PipelineStarted

\* One turn of fetch_all's loop (reddit_provider.py:74-77).
FetchCommunity ==
    /\ pc = "aggregate" /\ sub_i <= Len(subreddits)
    /\ fetched' = FetchSubredditPosts(feeds[subreddits[sub_i]], subreddits[sub_i], posts_per_sub)
    /\ all_posts' = all_posts \o fetched'
    /\ sub_i' = sub_i + 1
    /\ UNCHANGED <<pc, feeds, posts_per_sub, response, ranked_data, idx, current_thread,
                   approved_threads, best_thread_so_far, best_judge_score, usage_stats,
                   has_token, has_chat, send_k, calls, result, error, visited, generated, judged, last_decision,
                   last_notice, merged,
                   sent, text, subreddits, main, judge_answer>>

\* curator.py:38-42: fetch_all has returned.
Stage1Check ==
    /\ pc = "aggregate" /\ sub_i > Len(subreddits)
    /\ IF NothingAggregated(all_posts)
       THEN pc' = "failed" /\ error' = "RuntimeError"
       ELSE pc' = "ranking" /\ error' = error
    /\ UNCHANGED <<feeds, posts_per_sub, sub_i, fetched, all_posts, response, ranked_data,
                   idx, current_thread, approved_threads, best_thread_so_far,
                   best_judge_score, usage_stats, has_token, has_chat, send_k, calls,
                   result, visited, generated, judged, last_decision, last_notice, merged,
                   sent, text, subreddits, main, judge_answer>>

\* curator.py:48-63: the ranking call, the empty-ranking return, the loop's set-up.
Stage2(resp) ==
    /\ pc = "ranking"
    /\ LET f == Filter(all_posts, resp)
       IN  /\ response' = <<resp>>
           /\ ranked_data' = f.ranked
           /\ usage_stats' = MergeIfAny(usage_stats, f.usage)
           /\ calls' = [calls EXCEPT !.filter = @ + 1]
           /\ IF NothingRanked(f.ranked)
              THEN pc' = "done" /\ result' = Return(<<>>, usage_stats')
              ELSE pc' = "loop" /\ result' = result
    /\ UNCHANGED <<feeds, posts_per_sub, sub_i, fetched, all_posts, idx, current_thread,
                   approved_threads, best_thread_so_far, best_judge_score, has_token,
                   has_chat, send_k, error, visited, generated, judged, last_decision, last_notice, merged,
                   sent, text, subreddits, main, judge_answer>>

Stage2Ranking == pc = "ranking" /\ \E resp \in RankingAnswers : Stage2(resp)

\* curator.py:66-71: the loop's head; an unresolved id continues.
LoopHead ==
    /\ pc = "loop"
    /\ IF idx > Len(Candidates(ranked_data))
       THEN pc' = "fallback" /\ UNCHANGED <<idx, visited>>
       ELSE /\ visited' = Append(visited, idx)
            /\ IF Resolve(all_posts, Candidates(ranked_data)[idx].id) = 0
               THEN pc' = pc /\ idx' = idx + 1
               ELSE pc' = "enrich" /\ idx' = idx
    /\ UNCHANGED <<feeds, posts_per_sub, sub_i, fetched, all_posts, response, ranked_data,
                   current_thread, approved_threads, best_thread_so_far, best_judge_score,
                   usage_stats, has_token, has_chat, send_k, calls, result, error, generated, judged, last_decision,
                   last_notice, merged,
                   sent, text, subreddits, main, judge_answer>>

\* curator.py:76 and content_extractor.py:52-55: full_content is written.
Enrich ==
    /\ pc = "enrich"
    /\ LET j == Resolve(all_posts, Candidates(ranked_data)[idx].id)
       IN  all_posts' = [all_posts EXCEPT ![j].enriched = @ + 1]
    /\ calls' = [calls EXCEPT !.extract = @ + 1]
    /\ pc' = "generate"
    /\ UNCHANGED <<feeds, posts_per_sub, sub_i, fetched, response, ranked_data, idx,
                   current_thread, approved_threads, best_thread_so_far, best_judge_score,
                   usage_stats, has_token, has_chat, send_k, result, error, visited, generated, judged, last_decision,
                   last_notice, merged,
                   sent, text, subreddits, main, judge_answer>>

\* curator.py:80-87
Generate ==
    /\ pc = "generate"
    /\ \E g \in GenAnswers(all_posts[Resolve(all_posts, Candidates(ranked_data)[idx].id)], idx) :
         LET out == GenerateThreads(g)
         IN  /\ usage_stats' = MergeIfAny(usage_stats, out.usage)
             /\ IF out.selected_threads = <<>>
                THEN pc' = "loop" /\ idx' = idx + 1 /\ current_thread' = <<>>
                ELSE pc' = "judge" /\ idx' = idx
                     /\ current_thread' = <<out.selected_threads[1]>>
             /\ generated' = Append(generated, [rank |-> idx,
                                                empty |-> out.selected_threads = <<>>])
    /\ calls' = [calls EXCEPT !.generate = @ + 1]
    /\ UNCHANGED <<feeds, posts_per_sub, sub_i, fetched, all_posts, response, ranked_data,
                   approved_threads, best_thread_so_far, best_judge_score, has_token,
                   has_chat, send_k, result, error, visited, judged, last_decision, last_notice, merged,
                   sent, text, subreddits, main, judge_answer>>

\* curator.py:90-103 with _process_single_thread (curator.py:126-148)
JudgeWith(j) ==
    /\ pc = "judge"
    /\   LET r == ProcessSingleThread(current_thread[1], usage_stats, j)
             score == Candidates(ranked_data)[idx].score
         IN  /\ usage_stats' = r.stats
             /\ judge_answer' = <<j>>
             /\ calls' = [calls EXCEPT
                            !.judge = @ + 1,
                            !.notice = @ + Len(r.notices),
                            !.revise = @ + r.revisions,
                            !.post = @ + (IF NoticeDelivers(has_token, has_chat)
                                          THEN Len(r.notices) ELSE 0)]
             /\ last_notice' = IF r.notices = <<>> THEN last_notice ELSE r.notices
             /\ last_decision' = <<r.decision>>
             /\ judged' = Append(judged, [rank |-> idx, score |-> score,
                                          accepted |-> r.decision.action = "accept"])
             /\ IF r.approved
                THEN /\ approved_threads' = Append(approved_threads, r.thread)
                     /\ UNCHANGED <<best_thread_so_far, best_judge_score>>
                     /\ IF QuotaReached(approved_threads')
                        THEN pc' = "fallback" /\ idx' = idx
                        ELSE pc' = "loop" /\ idx' = idx + 1
                ELSE /\ approved_threads' = approved_threads
                     /\ IF BeatsBest(score, best_judge_score)
                        THEN best_judge_score' = score /\ best_thread_so_far' = <<r.thread>>
                        ELSE UNCHANGED <<best_thread_so_far, best_judge_score>>
                     /\ pc' = "loop" /\ idx' = idx + 1
    /\ current_thread' = <<>>
    /\ UNCHANGED <<feeds, posts_per_sub, sub_i, fetched, all_posts, response, ranked_data,
                   has_token, has_chat, send_k, result, error, visited, generated, merged,
                   sent, text, subreddits, main>>

Judge == pc = "judge" /\ \E j \in JudgeAnswers : JudgeWith(j)

\* curator.py:106-117: the fallback, then notify_all or the skip.
FallbackCheck ==
    /\ pc = "fallback"
    /\ approved_threads' = WithFallback(approved_threads, best_thread_so_far)
    /\ IF approved_threads' # <<>>
       THEN pc' = "notify" /\ calls' = [calls EXCEPT !.notify_all = @ + 1]
       ELSE pc' = "return" /\ calls' = calls
    /\ UNCHANGED <<feeds, posts_per_sub, sub_i, fetched, all_posts, response, ranked_data,
                   idx, current_thread, best_thread_so_far, best_judge_score, usage_stats,
                   has_token, has_chat, send_k, result, error, visited, generated, judged, last_decision, last_notice,
                   merged,
                   sent, text, subreddits, main, judge_answer>>

\* One turn of notify_all's loop: send_thread (telegram_notifier.py:20-59).
\* raise_for_status raises on a failed delivery; nothing between it and
\* main catches the error.
SendThread ==
    /\ pc = "notify" /\ send_k <= Len(approved_threads)
    /\ IF SendThreadDelivers(approved_threads[send_k], has_token, has_chat)
       THEN /\ calls' = [calls EXCEPT !.send_thread = @ + 1, !.post = @ + 1]
            /\ text' = <<PayloadText(approved_threads[send_k])>>
            /\ \E delivered \in BOOLEAN :
                 IF delivered
                 THEN /\ pc' = pc /\ error' = error /\ send_k' = send_k + 1
                      /\ sent' = Append(sent, TRUE)
                 ELSE /\ pc' = "failed" /\ error' = "HTTPError" /\ send_k' = send_k
                      /\ sent' = sent
       ELSE /\ calls' = [calls EXCEPT !.send_thread = @ + 1]
            /\ pc' = pc /\ error' = error /\ send_k' = send_k + 1
            /\ sent' = Append(sent, FALSE) /\ text' = text
    /\ UNCHANGED <<feeds, posts_per_sub, sub_i, fetched, all_posts, response, ranked_data,
                   idx, current_thread, approved_threads, best_thread_so_far,
                   best_judge_score, usage_stats, has_token, has_chat, result, visited,
                   generated, judged, last_decision, last_notice, merged,
                   subreddits, main, judge_answer>>

\* notify_all has returned.
NotifyDone ==
    /\ pc = "notify" /\ send_k > Len(approved_threads)
    /\ pc' = "return"
    /\ UNCHANGED <<feeds, posts_per_sub, sub_i, fetched, all_posts, response, ranked_data,
                   idx, current_thread, approved_threads, best_thread_so_far,
                   best_judge_score, usage_stats, has_token, has_chat, send_k, calls,
                   result, error, visited, generated, judged, last_decision, last_notice, merged,
                   sent, text, subreddits, main, judge_answer>>

\* curator.py:119-124
PipelineReturn ==
    /\ pc = "return"
    /\ result' = Return(approved_threads, usage_stats)
    /\ pc' = "done"
    /\ UNCHANGED <<feeds, posts_per_sub, sub_i, fetched, all_posts, response, ranked_data,
                   idx, current_thread, approved_threads, best_thread_so_far,
                   best_judge_score, usage_stats, has_token, has_chat, send_k, calls,
                   error, visited, generated, judged, last_decision, last_notice, merged,
                   sent, text, subreddits, main, judge_answer>>

Next ==
    \/ FetchCommunity
    \/ Stage1Check
    \/ Stage2Ranking
    \/ LoopHead
    \/ Enrich
    \/ Generate
    \/ Judge
    \/ FallbackCheck
    \/ SendThread
    \/ NotifyDone
    \/ PipelineReturn

Spec == Init /\ [][Next]_vars

(***************************************************************************)
(* main(): configuration, one pipeline run, the usage audit                *)
(***************************************************************************)
\* The SUBREDDITS settings explored; <<>> is the unset variable.
MainSettings ==
    { <<>>, << <<>> >>, << <<" ">> >>, << <<",">> >>, << <<" ", ",", "\t", ",">> >>,
      <<DefaultSetting>> }

InitMain ==
    /\ pc = "main"
    /\ feeds \in PipelineFeeds
    /\ posts_per_sub = MaxLimit
    /\ has_token \in BOOLEAN /\ has_chat \in BOOLEAN
    /\ Idle
    /\ subreddits = <<>>
    /\ main \in {MainAt(env) : env \in MainSettings}

pipelineVars ==
    <<feeds, posts_per_sub, sub_i, fetched, all_posts, response, ranked_data, idx,
      current_thread, approved_threads, best_thread_so_far, best_judge_score, usage_stats,
      has_token, has_chat, send_k, calls, result, error, visited, generated, judged,
      last_decision, last_notice, merged, sent, text, judge_answer>>

\* main.py:15-19
MainConfig ==
    /\ pc = "main"
    /\ IF SettingMissing(main.env)
       THEN /\ pc' = "exit"
            /\ main' = [main EXCEPT !.raised = "ValueError"]
            /\ subreddits' = subreddits
       ELSE /\ pc' = "construct"
            /\ main' = main
            /\ subreddits' = ParseSubreddits(main.env[1])
    /\ UNCHANGED pipelineVars

\* main.py:27-30
MainConstruct ==
    /\ pc = "construct"
    /\ main' = [main EXCEPT !.curator = TRUE]
    /\ pc' = "run"
    /\ UNCHANGED <<pipelineVars, subreddits>>

\* main.py:37: run_pipeline is called.
MainRun ==
    /\ pc = "run"
    /\ main' = [main EXCEPT !.started = TRUE]
    /\ pc' = "aggregate"
    /\ UNCHANGED <<pipelineVars, subreddits>>

\* main.py:41-43: the error is logged and raised again.
MainAbort ==
    /\ pc = "failed"
    /\ main' = [main EXCEPT !.raised = error]
    /\ pc' = "exit"
    /\ UNCHANGED <<pipelineVars, subreddits>>

\* main.py:45-64: run_pipeline has returned.
MainAudit ==
    /\ pc = "done"
    /\ main' = [main EXCEPT !.audit = <<AuditOf(result[1].usage)>>]
    /\ pc' = "exit"
    /\ UNCHANGED <<pipelineVars, subreddits>>

NextMain ==
    \/ MainConfig
    \/ MainConstruct
    \/ MainRun
    \/ Next
    \/ MainAbort
    \/ MainAudit

SpecMain == InitMain /\ [][NextMain]_vars

(***************************************************************************)
(* fetch_all on its own, over every feed of FetchFeeds                     *)
(***************************************************************************)
InitFetch ==
    /\ pc = "aggregate"
    /\ feeds \in { [s \in {"a", "b"} |-> IF s = "a" THEN f ELSE g] :
                     f \in FetchFeeds,
                     g \in {FeedDown, Feed(<<FeedEntry(bob, MaxFeed + 1)>>)} }
    /\ posts_per_sub \in 0..MaxLimit
    /\ has_token = FALSE /\ has_chat = FALSE
    /\ Idle /\ PipelineStarted

NextFetch ==
    \/ FetchCommunity
    \/ Stage1Check

SpecFetch == InitFetch /\ [][NextFetch]_vars

(***************************************************************************)
(* filter on its own, over every answer of FilterAnswers                   *)
(***************************************************************************)
InitFilter ==
    /\ pc = "ranking"
    /\ feeds = [s \in {"a", "b"} |-> IF s = "a" THEN Feed(<<FeedEntry(alice, 1)>>) ELSE FeedDown]
    /\ posts_per_sub = MaxLimit
    /\ has_token = FALSE /\ has_chat = FALSE
    /\ sub_i = Len(Subreddits) + 1
    /\ fetched = <<>>
    /\ all_posts = <<MakePost(FeedEntry(alice, 1), "a")>>
    /\ response = <<>> /\ ranked_data = <<>> /\ idx = 1
    /\ current_thread = <<>> /\ approved_threads = <<>>
    /\ best_thread_so_far = <<>> /\ best_judge_score = NO_SCORE
    /\ usage_stats = InitialUsage
    /\ send_k = 1 /\ calls = NoCalls /\ result = <<>> /\ error = ""
    /\ visited = <<>> /\ generated = <<>> /\ judged = <<>> /\ last_decision = <<>> /\ last_notice = <<>>
    /\ merged = <<>> /\ sent = <<>> /\ text = <<>> /\ judge_answer = <<>>
    /\ PipelineStarted

FilterOnly == pc = "ranking" /\ \E resp \in FilterAnswers(all_posts) : Stage2(resp)

SpecFilter == InitFilter /\ [][FilterOnly]_vars

(***************************************************************************)
(* _update_usage on its own: up to MaxMerges merges of UsageRecords        *)
(***************************************************************************)
InitUsage == pc = "ledger" /\ feeds = <<>> /\ posts_per_sub = 0
             /\ has_token = FALSE /\ has_chat = FALSE /\ Idle /\ PipelineStarted

UsageMerge ==
    /\ pc = "ledger" /\ Len(merged) < MaxMerges
    /\ \E u \in UsageRecords :
         /\ usage_stats' = UpdateUsage(usage_stats, u)
         /\ merged' = Append(merged, u)
    /\ UNCHANGED <<pc, feeds, posts_per_sub, sub_i, fetched, all_posts, response,
                   ranked_data, idx, current_thread, approved_threads, best_thread_so_far,
                   best_judge_score, has_token, has_chat, send_k, calls, result, error,
                   visited, generated, judged, last_decision, last_notice,
                   sent, text, subreddits, main, judge_answer>>

SpecUsage == InitUsage /\ [][UsageMerge]_vars

(***************************************************************************)
(* _process_single_thread on its own, over every answer of WideJudgeAnswers *)
(***************************************************************************)
\* The loop's first candidate has been ranked, enriched and given a thread.
InitJudge ==
    /\ pc = "judge"
    /\ feeds = [s \in {"a", "b"} |-> IF s = "a" THEN Feed(<<FeedEntry(alice, 1)>>) ELSE FeedDown]
    /\ posts_per_sub = MaxLimit
    /\ has_token \in BOOLEAN /\ has_chat \in BOOLEAN
    /\ sub_i = Len(Subreddits) + 1
    /\ fetched = <<>>
    /\ all_posts = <<[MakePost(FeedEntry(alice, 1), "a") EXCEPT !.enriched = 1]>>
    /\ \E sc \in Scores, tw \in {SomeTweets, <<>>} :
         LET resp == FilterAnswer(<<RankEntry(PostId(1), sc)>>)
             gen == GenerateThreads(GenAnswer(<<Thread(all_posts[1], 1, tw)>>))
         IN  /\ response = <<resp>>
             /\ ranked_data = Filter(all_posts, resp).ranked
             /\ current_thread = <<gen.selected_threads[1]>>
             /\ usage_stats = MergeIfAny(MergeIfAny(InitialUsage, Filter(all_posts, resp).usage),
                                         gen.usage)
    /\ idx = 1
    /\ approved_threads = <<>>
    /\ best_thread_so_far = <<>> /\ best_judge_score = NO_SCORE
    /\ send_k = 1 /\ result = <<>> /\ error = ""
    /\ calls = [NoCalls EXCEPT !.filter = 1, !.extract = 1, !.generate = 1]
    /\ visited = <<1>> /\ generated = <<[rank |-> 1, empty |-> FALSE]>>
    /\ judged = <<>> /\ last_decision = <<>> /\ last_notice = <<>>
    /\ merged = <<>> /\ sent = <<>> /\ text = <<>> /\ judge_answer = <<>>
    /\ PipelineStarted

JudgeOnly == pc = "judge" /\ \E j \in WideJudgeAnswers : JudgeWith(j)

SpecJudge == InitJudge /\ [][JudgeOnly]_vars

(***************************************************************************)
(* send_thread on its own, over composed messages around the limit         *)
(***************************************************************************)
\* A thread whose tweets are `tweets`, for the post with link 1.
ThreadOf(tweets) ==
    [post_id |-> PostId(1), post_title |-> ThreadTitle(1), tweets |-> tweets, serial |-> 1]

\* The tweet of n characters.
Filler(n) == Repeat("x", n)

\* Threads of one tweet and of two tweets whose composed message is d
\* characters longer than the limit, d from -MaxOver to MaxOver, and the
\* thread of SomeTweets.
SendThreads ==
    { ThreadOf(<<Filler(MESSAGE_LIMIT + d - Len(FullMessage(ThreadOf(<< <<>> >>))))>>) :
        d \in (-MaxOver)..MaxOver }
    \cup
    { ThreadOf(<<SomeTweets[1],
                Filler(MESSAGE_LIMIT + d - Len(FullMessage(ThreadOf(<<SomeTweets[1], <<>> >>))))>>) :
        d \in (-MaxOver)..MaxOver }
    \cup {ThreadOf(SomeTweets)}

InitSend ==
    /\ pc = "notify"
    /\ feeds = [s \in {"a", "b"} |-> IF s = "a" THEN Feed(<<FeedEntry(alice, 1)>>) ELSE FeedDown]
    /\ posts_per_sub = MaxLimit
    /\ has_token = TRUE /\ has_chat = TRUE
    /\ sub_i = Len(Subreddits) + 1
    /\ fetched = <<>>
    /\ all_posts = <<MakePost(FeedEntry(alice, 1), "a")>>
    /\ response = <<>> /\ ranked_data = <<>> /\ idx = 1
    /\ current_thread = <<>>
    /\ approved_threads \in {<<t>> : t \in SendThreads}
    /\ best_thread_so_far = <<>> /\ best_judge_score = NO_SCORE
    /\ usage_stats = InitialUsage
    /\ send_k = 1 /\ calls = NoCalls /\ result = <<>> /\ error = ""
    /\ visited = <<>> /\ generated = <<>> /\ judged = <<>> /\ last_decision = <<>> /\ last_notice = <<>>
    /\ merged = <<>> /\ sent = <<>> /\ text = <<>> /\ judge_answer = <<>>
    /\ PipelineStarted

NextSend ==
    \/ SendThread
    \/ NotifyDone

SpecSend == InitSend /\ [][NextSend]_vars

(***************************************************************************)
(* Properties of run_pipeline (specification Spec)                         *)
(***************************************************************************)
AfterLoop == pc \in {"fallback", "notify", "return", "done"} \/ (pc = "failed" /\ error = "HTTPError")
Selected == pc \in {"notify", "return", "done"} \/ (pc = "failed" /\ error = "HTTPError")

AcceptedIdx == {i \in 1..Len(judged) : judged[i].accepted}
RejectedIdx == {i \in 1..Len(judged) : ~judged[i].accepted}
LastVisited == visited[Len(visited)]
ResolvesAt(k) == Resolve(all_posts, ranked_data[k].id) # 0

\* C1: the approved set never holds more than 3 threads, and once the third
\* thread is judged accept the loop is over: that judgment is the last one
\* and its candidate is the last ranked entry the loop ever looked at.
C1_QuotaHaltsLoop ==
    /\ Len(approved_threads) <= 3
    /\ Cardinality(AcceptedIdx) <= 3
    /\ Cardinality(AcceptedIdx) = 3 =>
         /\ AfterLoop
         /\ judged[Len(judged)].accepted
         /\ LastVisited = judged[Len(judged)].rank
         /\ calls.extract = Len(generated) /\ calls.generate = Len(generated)
         /\ generated[Len(generated)].rank = LastVisited

\* A run that approved 3 threads and returned while a resolvable candidate
\* was still waiting in the ranked list.
C1_Witness ==
    /\ pc = "done" /\ result # <<>>
    /\ Len(result[1].selected_threads) = 3
    /\ Len(judged) = 3
    /\ LastVisited < Len(ranked_data) /\ LastVisited < 10
    /\ ResolvesAt(LastVisited + 1)

\* The rejected judgment whose candidate scored highest, the earliest on a tie.
BestRejected ==
    CHOOSE i \in RejectedIdx :
        \A j \in RejectedIdx :
            \/ judged[j].score < judged[i].score
            \/ (judged[j].score = judged[i].score /\ i <= j)

\* C2: when at least one thread was generated and every judged thread was
\* rejected, the selection is exactly one thread: the rejected thread whose
\* candidate has the highest ranking score, the earliest-processed on a tie.
C2_FallbackIsBestRejected ==
    (Selected /\ judged # <<>> /\ AcceptedIdx = {}) =>
        /\ Len(approved_threads) = 1
        /\ approved_threads[1].serial = judged[BestRejected].rank
        /\ approved_threads[1].post_id = ranked_data[judged[BestRejected].rank].id
        /\ (pc = "done" => result[1].selected_threads = approved_threads)

\* A returned run with two rejections tied at the top score, and a third below.
C2_Witness ==
    /\ pc = "done" /\ AcceptedIdx = {} /\ Len(judged) >= 3
    /\ \E i, j \in RejectedIdx :
         /\ i < j /\ judged[i].score = judged[j].score
         /\ \A h \in RejectedIdx : judged[h].score <= judged[i].score
         /\ \E h \in RejectedIdx : judged[h].score < judged[i].score
         /\ result[1].selected_threads[1].serial = judged[i].rank

NoStageCalls ==
    /\ calls.extract = 0 /\ calls.generate = 0 /\ calls.judge = 0
    /\ calls.notice = 0 /\ calls.notify_all = 0 /\ calls.send_thread = 0
    /\ calls.post = 0 /\ calls.revise = 0

\* C3: when the ranking stage returns no entry, run_pipeline has returned an
\* empty selected-threads list, without error and without any extraction,
\* generation, judgment, rejection-notice or delivery call.
C3_EmptyRankingReturns ==
    (response # <<>> /\ ranked_data = <<>>) =>
        /\ pc = "done" /\ error = ""
        /\ result # <<>> /\ result[1].selected_threads = <<>>
        /\ NoStageCalls

\* The ranking call failed and the run has returned.
C3_Witness ==
    /\ pc = "done" /\ response # <<>> /\ response[1].fails
    /\ result # <<>> /\ result[1].selected_threads = <<>>

\* C4: when fetch_all has returned no post at all, run_pipeline raises at
\* once: no ranking call and no later call is ever made, nothing is returned.
C4_NoPostsRaises ==
    (pc # "aggregate" /\ all_posts = <<>>) =>
        /\ pc = "failed" /\ error = "RuntimeError"
        /\ calls = NoCalls /\ response = <<>> /\ result = <<>>

\* Every community was fetched, none gave a post, and the run raised.
C4_Witness ==
    /\ pc = "failed" /\ error = "RuntimeError"
    /\ sub_i = Len(Subreddits) + 1 /\ all_posts = <<>>

\* C5: only total aggregation failure ends a run with an error; a failed
\* delivery of one output thread is absorbed, the run still returns.
C5_OnlyAggregationFails ==
    pc = "failed" => error = "RuntimeError"

\* C6: every non-accept verdict, revise or abort alike, has produced one
\* rejection notice carrying the judge's weakness by the time the loop moves
\* on, and revise_thread is never called.
C6_RejectionNotice ==
    /\ calls.revise = 0
    /\ calls.notice = Cardinality(RejectedIdx)
    /\ (last_decision # <<>> /\ last_decision[1].action # "accept") =>
          /\ last_notice # <<>>
          /\ last_notice[1].reason = last_decision[1].weakness

\* A second rejection notice has been issued, the last for a revise verdict,
\* and the loop is about to take the next candidate.
C6_Witness ==
    /\ pc = "loop" /\ calls.notice >= 2
    /\ last_decision # <<>> /\ last_decision[1].action = "revise"
    /\ last_notice[1].reason = "weak hook"

EmptyGenerated == {g \in 1..Len(generated) : generated[g].empty}
Increasing(ranks) == \A a, b \in 1..Len(ranks) : a < b => ranks[a] < ranks[b]

\* C7: the loop looks at the ranked entries 1, 2, ... in order and at none
\* beyond the 10th; a visited entry gets at most one enrichment, then one
\* generation, then one judgment; an entry whose id resolves to no post, or
\* whose generation result is empty, gets no judgment and no notice.
C7_LoopDiscipline ==
    /\ visited = [k \in 1..Len(visited) |-> k]
    /\ Len(visited) <= 10
    /\ Increasing([g \in 1..Len(generated) |-> generated[g].rank])
    /\ Increasing([j \in 1..Len(judged) |-> judged[j].rank])
    /\ \A g \in 1..Len(generated) :
          generated[g].rank \in 1..Len(visited) /\ ResolvesAt(generated[g].rank)
    /\ calls.generate = Len(generated)
    /\ calls.extract = Len(generated) + (IF pc = "generate" THEN 1 ELSE 0)
    /\ calls.judge = Len(judged)
    /\ Len(judged) = Len(generated) - Cardinality(EmptyGenerated)
                        - (IF pc = "judge" THEN 1 ELSE 0)
    /\ \A j \in 1..Len(judged) :
          \E g \in 1..Len(generated) : generated[g].rank = judged[j].rank /\ ~generated[g].empty
    /\ calls.notice <= Len(judged)

\* A returned run over a ranked list of more than 10 entries: the loop looked
\* at all of the first 10, some unresolvable, one with an empty generation
\* result, and a resolvable 11th entry was left alone.
C7_Witness ==
    /\ pc = "done" /\ Len(ranked_data) > 10 /\ Len(visited) = 10
    /\ ResolvesAt(11)
    /\ \E k \in 1..10 : ~ResolvesAt(k)
    /\ EmptyGenerated # {}
    /\ judged # <<>>

(***************************************************************************)
(* Properties of the usage ledger (specification SpecUsage)                *)
(***************************************************************************)
RECURSIVE SumSeq(_)
SumSeq(numbers) ==
    IF numbers = <<>> THEN 0 ELSE numbers[1] + SumSeq(Tail(numbers))

RECURSIVE SumCosts(_, _)
SumCosts(by_model, models) ==
    IF models = {} THEN 0
    ELSE LET m == CHOOSE x \in models : TRUE
         IN  by_model[m].cost + SumCosts(by_model, models \ {m})

ForModel(m, x) == IF merged[x].model = m THEN 1 ELSE 0
MergedPrompt(m) == SumSeq([x \in 1..Len(merged) |-> ForModel(m, x) * merged[x].prompt_tokens])
MergedCompletion(m) ==
    SumSeq([x \in 1..Len(merged) |-> ForModel(m, x) * merged[x].completion_tokens])
MergedTotal(m) == SumSeq([x \in 1..Len(merged) |-> ForModel(m, x) * merged[x].total_tokens])
MergedCost(m) == SumSeq([x \in 1..Len(merged) |-> ForModel(m, x) * AppliedCost(merged[x])])

\* C8: after any sequence of merges, each model's prompt, completion and
\* total token counts are the sums of those of the records merged for it,
\* its cost is the sum of the costs applied for it, and the grand total is
\* the sum of the per-model costs.
C8_LedgerIsAdditive ==
    /\ \A x \in 1..Len(merged) : merged[x].model \in DOMAIN usage_stats.by_model
    /\ \A m \in DOMAIN usage_stats.by_model :
          /\ usage_stats.by_model[m].prompt = MergedPrompt(m)
          /\ usage_stats.by_model[m].completion = MergedCompletion(m)
          /\ usage_stats.by_model[m].total = MergedTotal(m)
          /\ usage_stats.by_model[m].cost = MergedCost(m)
    /\ usage_stats.total_cost = SumCosts(usage_stats.by_model, DOMAIN usage_stats.by_model)

\* Two records of one model were merged, one priced by the fallback rate and
\* one carrying its cost, after tokens were spent.
C8_Witness ==
    /\ Len(merged) >= 2
    /\ merged[1].model = merged[2].model
    /\ merged[1].cost = <<>> /\ merged[1].prompt_tokens > 0
    /\ merged[2].cost # <<>> /\ GivenCost(merged[2]) > 0 /\ merged[2].completion_tokens > 0
    /\ usage_stats.by_model[merged[1].model].cost > GivenCost(merged[2])

(***************************************************************************)
(* Properties of filter (specification SpecFilter)                         *)
(***************************************************************************)
Answered == response # <<>> /\ ~response[1].fails
Listed == response[1].ranked_posts
NonIncreasing(list) == \A k \in 1..(Len(list) - 1) : list[k].score >= list[k + 1].score
NothingHigherLeftOut ==
    \A k \in (Len(ranked_data) + 1)..Len(Listed) :
        \A h \in 1..Len(ranked_data) : Listed[k].score <= ranked_data[h].score

\* C9 as claimed: filter returns at most 15 entries, in non-increasing score
\* order, and no entry of the answer that was left out has a higher score
\* than an entry that was kept.
C9_TopFifteenByScore ==
    Answered =>
        /\ Len(ranked_data) <= 15
        /\ NonIncreasing(ranked_data)
        /\ NothingHigherLeftOut

\* C9 amended: filter returns the first 15 entries of the answer's list, in
\* the answer's order (the whole list when it has at most 15, nothing when
\* the call failed); they are in non-increasing score order with nothing
\* higher left out when the answer's list is itself in that order.
C9_FirstFifteenInAnswerOrder ==
    /\ (response # <<>> /\ response[1].fails) => ranked_data = <<>>
    /\ Answered =>
        /\ Len(ranked_data) <= 15
        /\ Len(ranked_data) = (IF Len(Listed) < 15 THEN Len(Listed) ELSE 15)
        /\ \A k \in 1..Len(ranked_data) : ranked_data[k] = Listed[k]
        /\ NonIncreasing(Listed) => (NonIncreasing(ranked_data) /\ NothingHigherLeftOut)

\* A sorted answer of more than 15 entries with a drop in score: 15 are kept.
C9_Witness ==
    /\ Answered /\ Len(Listed) > 15 /\ Len(ranked_data) = 15
    /\ NonIncreasing(Listed)
    /\ Listed[1].score > Listed[Len(Listed)].score

(***************************************************************************)
(* Properties of fetch_subreddit_posts (specification SpecFetch)           *)
(***************************************************************************)
\* The first community has just been fetched, its feed read without fault.
FetchedFirst == pc = "aggregate" /\ sub_i = 2
ReadWithoutFault ==
    /\ feeds["a"].status = 200 /\ ~feeds["a"].raises /\ feeds["a"].fault_at = 0

NotAutoModerator(entry) == Lower(AuthorOf(entry)) # S_automoderator
NoModeratorInName(entry) == ~Contains(S_moderator, Lower(AuthorOf(entry)))
AsPosts(entries, subreddit) == [k \in 1..Len(entries) |-> MakePost(entries[k], subreddit)]

\* C10 as claimed: the result is the feed's entries, in feed order, without
\* those whose author is AutoModerator in any letter case, cut at the limit.
C10_OnlyAutoModeratorExcluded ==
    (FetchedFirst /\ ReadWithoutFault) =>
        fetched = AsPosts(Prefix(SelectSeq(feeds["a"].entries, NotAutoModerator),
                                 posts_per_sub), "a")

\* C10 amended: the result is the feed's entries, in feed order, without
\* those whose author contains "moderator" in any letter case (AutoModerator
\* among them), cut at the limit.
C10_ModeratorNamesExcluded ==
    (FetchedFirst /\ ReadWithoutFault) =>
        fetched = AsPosts(Prefix(SelectSeq(feeds["a"].entries, NoModeratorInName),
                                 posts_per_sub), "a")

\* An upper-case AUTOMODERATOR entry was dropped, an entry without author
\* kept, and the limit cut the result short of a further eligible entry.
C10_Witness ==
    /\ FetchedFirst /\ ReadWithoutFault
    /\ \E k \in 1..Len(feeds["a"].entries) : feeds["a"].entries[k].author = AUTOMODERATOR
    /\ \E k \in 1..Len(fetched) : fetched[k].author = unknown
    /\ Len(fetched) = posts_per_sub
    /\ Len(SelectSeq(feeds["a"].entries, NoModeratorInName)) > posts_per_sub

(***************************************************************************)
(* Properties of fetch_subreddit_posts and fetch_all under faults          *)
(* (specification SpecFetch)                                               *)
(***************************************************************************)
\* The request for the community failed before any entry was read.
FailedBeforeEntries(feed) == feed.raises \/ feed.status # 200

\* The entries that become posts among the first n entries of the feed.
EligibleAmong(feed, n) == SelectSeq(SubSeq(feed.entries, 1, n), NoModeratorInName)

\* The loop reached entry fault_at, below the limit, and the fault was raised.
FaultedPartWay(feed, limit) ==
    /\ ~FailedBeforeEntries(feed)
    /\ feed.fault_at \in 1..Len(feed.entries)
    /\ Len(EligibleAmong(feed, feed.fault_at - 1)) < limit

Faulted(feed, limit) == FailedBeforeEntries(feed) \/ FaultedPartWay(feed, limit)

\* What the second community contributes: its feed is down or read whole.
PostsOfSecond ==
    IF FailedBeforeEntries(feeds["b"]) THEN <<>>
    ELSE AsPosts(Prefix(SelectSeq(feeds["b"].entries, NoModeratorInName), posts_per_sub), "b")

\* fetch_all never raises: aggregation goes on until both communities are fetched.
FetchAllGoesOn ==
    /\ (sub_i <= Len(Subreddits)) => (pc = "aggregate" /\ error = "")
    /\ ENABLED FetchCommunity \/ sub_i > Len(Subreddits)

\* C11 as claimed: a community whose request or feed faults, part-way through
\* the entries included, contributes an empty sequence; nothing is raised, and
\* the other community is still fetched and its posts are all that is returned.
C11_FaultGivesNothing ==
    /\ FetchAllGoesOn
    /\ (sub_i >= 2 /\ Faulted(feeds["a"], posts_per_sub)) =>
          /\ (sub_i = 2 => fetched = <<>>)
          /\ (sub_i = 3 => (fetched = PostsOfSecond /\ all_posts = PostsOfSecond))

\* What a faulted community contributes: nothing when the request failed, the
\* answer was not 200 or the body could not be parsed; the posts made of the
\* entries before the faulty one when the fault is raised inside the loop.
KeptOnFault(feed, subreddit, limit) ==
    IF FailedBeforeEntries(feed) THEN <<>>
    ELSE AsPosts(EligibleAmong(feed, feed.fault_at - 1), subreddit)

\* C11 amended: a faulted community contributes nothing when the fault comes
\* before the first entry is read (request error, non-200 answer, unparsable
\* body) and the posts collected before the faulty entry when the fault comes
\* part-way; nothing is raised, and the other community is still fetched, its
\* posts following the first community's.
C11_FaultKeepsCollected ==
    /\ FetchAllGoesOn
    /\ (sub_i >= 2 /\ Faulted(feeds["a"], posts_per_sub)) =>
          /\ (sub_i = 2 => fetched = KeptOnFault(feeds["a"], "a", posts_per_sub))
          /\ (sub_i = 3 =>
                /\ fetched = PostsOfSecond
                /\ all_posts = KeptOnFault(feeds["a"], "a", posts_per_sub) \o PostsOfSecond)

\* The first community faulted on its second entry after one post was made,
\* and the second community's post was still fetched and returned after it.
C11_Witness ==
    /\ sub_i = 3 /\ pc = "aggregate"
    /\ FaultedPartWay(feeds["a"], posts_per_sub) /\ feeds["a"].fault_at = 2
    /\ Len(all_posts) = 2
    /\ all_posts[1].subreddit = "a" /\ all_posts[2].subreddit = "b"
    /\ fetched = <<all_posts[2]>>

(***************************************************************************)
(* Properties of the notifier's guards (specification Spec)                *)
(***************************************************************************)
CredentialAbsent == ~has_token \/ ~has_chat
DeliveryRaised == IF pc = "failed" /\ error = "HTTPError" THEN 1 ELSE 0
Delivered == Cardinality({k \in 1..Len(sent) : sent[k]})

\* C12: a send_thread call returns false, without delivery attempt and
\* without error, exactly when a credential is absent or the thread has no
\* tweets; with a credential absent a run makes no delivery call at all, for
\* threads or for rejection notices, and no delivery error ends it.
C12_GuardedSendsNothing ==
    /\ calls.send_thread = Len(sent) + DeliveryRaised
    /\ \A k \in 1..Len(sent) :
          sent[k] = FALSE <=> (CredentialAbsent \/ approved_threads[k].tweets = <<>>)
    /\ DeliveryRaised = 1 =>
          (~CredentialAbsent /\ approved_threads[send_k].tweets # <<>>)
    /\ calls.post = Delivered + DeliveryRaised
                      + (IF CredentialAbsent THEN 0 ELSE calls.notice)
    /\ CredentialAbsent =>
          (calls.post = 0 /\ text = <<>> /\ DeliveryRaised = 0)

\* A run without channel identifier has returned after two rejections and
\* one refused send_thread call for a thread that has tweets.
C12_Witness ==
    /\ pc = "done" /\ has_token /\ ~has_chat
    /\ calls.notice >= 2 /\ sent = <<FALSE>>
    /\ approved_threads[1].tweets # <<>>
    /\ calls.post = 0
    /\ result[1].selected_threads = approved_threads

(***************************************************************************)
(* Properties of send_thread's truncation (specification SpecSend)         *)
(***************************************************************************)
\* The composed message of the thread the delivery call was made for.
Composed == FullMessage(approved_threads[1])

\* C13: the text handed to the delivery call is at most 4,000 characters
\* long: a composed message of more than 4,000 characters is sent as its
\* first 3,997 characters followed by "..." (4,000 in all), one of 4,000
\* characters or fewer is sent as it is.
C13_TextWithinLimit ==
    text # <<>> =>
        /\ Len(text[1]) <= 4000
        /\ Len(Composed) > 4000 =>
              /\ Len(text[1]) = 4000
              /\ \A k \in 1..3997 : text[1][k] = Composed[k]
              /\ \A k \in 3998..4000 : text[1][k] = "."
        /\ Len(Composed) <= 4000 => text[1] = Composed

\* A composed message of 4,001 characters was delivered as 4,000, the last
\* of them the ellipsis.
C13_Witness ==
    /\ text # <<>> /\ sent = <<TRUE>>
    /\ Len(Composed) = 4001
    /\ Len(text[1]) = 4000
    /\ SubSeq(text[1], 3998, 4000) = <<".", ".", ".">>
    /\ text[1][3997] = "x"

(***************************************************************************)
(* Properties of main (specification SpecMain)                             *)
(***************************************************************************)
\* The SUBREDDITS setting is absent, or names no community once its pieces
\* are trimmed.
SettingMissingOrBlank(env) ==
    \/ env = <<>>
    \/ ParseSubreddits(env[1]) = <<>>

\* C14: when the community-list setting is absent or empty after trimming,
\* main does nothing but fail with the configuration error: the curator is
\* never constructed, run_pipeline is never started, no call is made.
C14_BlankSettingFailsBeforeWork ==
    SettingMissingOrBlank(main.env) =>
        /\ pc \in {"main", "exit"}
        /\ ~main.curator /\ ~main.started
        /\ pc = "exit" => main.raised = "ValueError"

\* The audit main printed shows the ledger as it stands: a line per model
\* with its token counts and cost, then the grand total.
AuditShowsLedger ==
    /\ main.audit # <<>>
    /\ DOMAIN main.audit[1].lines = DOMAIN usage_stats.by_model
    /\ \A m \in DOMAIN usage_stats.by_model :
          /\ main.audit[1].lines[m].total = usage_stats.by_model[m].total
          /\ main.audit[1].lines[m].prompt = usage_stats.by_model[m].prompt
          /\ main.audit[1].lines[m].completion = usage_stats.by_model[m].completion
          /\ main.audit[1].lines[m].cost = SixDecimals(usage_stats.by_model[m].cost)
    /\ main.audit[1].grand_total = <<SixDecimals(usage_stats.total_cost)>>

\* C15 as claimed: every run that started the pipeline has printed the usage
\* audit by the time the process ends, whatever happened during the run.
C15_AuditAlwaysPrinted ==
    (pc = "exit" /\ main.started) => AuditShowsLedger

\* C15 amended: a run that started the pipeline ends either with the audit
\* printed, when run_pipeline returned (however degraded the run), or with
\* the pipeline's error raised again and no audit, when run_pipeline raised;
\* the audit is printed at the end only and shows the ledger of the run.
C15_AuditAfterReturnOnly ==
    /\ main.audit # <<>> => (pc = "exit" /\ main.started /\ result # <<>>)
    /\ (pc = "exit" /\ main.started) =>
          /\ main.raised = "" <=> result # <<>>
          /\ main.raised = "" => (AuditShowsLedger /\ result[1].usage = usage_stats)
          /\ main.raised # "" =>
                (main.audit = <<>> /\ main.raised = error
                 /\ error \in {"RuntimeError", "HTTPError"})

\* The process ended with the audit of a degraded run: a generation came
\* back empty, every judged thread was rejected, and tokens were paid for.
C15_Witness ==
    /\ pc = "exit" /\ main.started /\ main.raised = ""
    /\ EmptyGenerated # {} /\ judged # <<>> /\ AcceptedIdx = {}
    /\ main.audit # <<>> /\ main.audit[1].grand_total[1] > 0
    /\ main.audit[1].lines["gpt-5.2"].total > 0

(***************************************************************************)
(* Properties of evaluate and _process_single_thread (specification        *)
(* SpecJudge)                                                              *)
(***************************************************************************)
BeforeFallback == pc \in {"loop", "enrich", "generate", "judge", "fallback"}

\* The judge's answer gives no usable verdict: the request or the decoding
\* failed, the action field is missing or null, the confidence is no number.
NoVerdict(answer) ==
    \/ answer.fails
    \/ answer.action = <<>>
    \/ answer.action = <<"(null)">>
    \/ (answer.confidence # <<>> /\ answer.confidence[1] \notin {"0.9", "1"})

\* C16: evaluate always returns a decision, whose action is abort when the
\* request or the decoding failed or the response has no action field; a
\* thread is in the approved set only if its judgment call succeeded and
\* the response's action is exactly accept.
C16_OnlyAcceptApproves ==
    /\ judge_answer # <<>> =>
          /\ error = "" /\ pc # "failed"
          /\ last_decision # <<>> /\ judged # <<>>
          /\ NoVerdict(judge_answer[1]) =>
                (last_decision[1].action = "abort" /\ ~judged[Len(judged)].accepted)
          /\ judged[Len(judged)].accepted =>
                (~judge_answer[1].fails /\ judge_answer[1].action = <<"accept">>)
    /\ BeforeFallback =>
          /\ Len(approved_threads) = Cardinality(AcceptedIdx)
          /\ \A k \in 1..Len(approved_threads) :
                \E i \in AcceptedIdx : judged[i].rank = approved_threads[k].serial

\* The judgment request failed: evaluate returned abort with the error as
\* weakness, nothing was merged into the ledger, the thread was not approved
\* and its rejection notice was issued.
C16_Witness ==
    /\ judge_answer # <<>> /\ judge_answer[1].fails
    /\ last_decision = <<[action |-> "abort", weakness |-> "error text"]>>
    /\ approved_threads = <<>> /\ judged # <<>> /\ ~judged[1].accepted
    /\ calls.judge = 1 /\ calls.notice = 1
    /\ usage_stats.by_model["gpt-5.2"].total = MaxTok + 1

(***************************************************************************)
(* Properties of the selected threads (specification Spec)                 *)
(***************************************************************************)
IsAccepted(judgment) == judgment.accepted
AcceptedRanks ==
    [k \in 1..Len(SelectSeq(judged, IsAccepted)) |-> SelectSeq(judged, IsAccepted)[k].rank]
SelectedRanks == [k \in 1..Len(approved_threads) |-> approved_threads[k].serial]

\* C17: the selected threads, as handed to the notifier and as returned, are
\* nothing at all, or the one to three threads judged accept in the order
\* they were processed, or, when no thread was judged accept, exactly one
\* thread that was judged non-accept; the notifier is called exactly when
\* there is a thread to send.
C17_SelectedShape ==
    Selected =>
        /\ \/ approved_threads = <<>>
           \/ /\ AcceptedIdx # {}
              /\ Len(approved_threads) \in 1..3
              /\ SelectedRanks = AcceptedRanks
           \/ /\ AcceptedIdx = {}
              /\ Len(approved_threads) = 1
              /\ \E i \in RejectedIdx : judged[i].rank = approved_threads[1].serial
        /\ \A k \in 1..Len(approved_threads) :
              approved_threads[k].post_id = ranked_data[approved_threads[k].serial].id
        /\ calls.notify_all = (IF approved_threads = <<>> THEN 0 ELSE 1)
        /\ pc = "done" => result[1].selected_threads = approved_threads

\* A returned run that approved the first and the third candidate and
\* rejected the second: the two approved threads are returned, in that
\* order, and the rejected one, although retained as best, is not.
C17_Witness ==
    /\ pc = "done" /\ result # <<>>
    /\ Len(judged) >= 3
    /\ judged[1].accepted /\ ~judged[2].accepted /\ judged[3].accepted
    /\ best_thread_so_far # <<>>
    /\ Len(result[1].selected_threads) = 2
    /\ result[1].selected_threads[1].serial = judged[1].rank
    /\ result[1].selected_threads[2].serial = judged[3].rank

(***************************************************************************)
(* Properties of enrichment (specification Spec)                           *)
(***************************************************************************)
\* The generation requests made for the post at position j of all_posts.
GenerationsFor(j) ==
    {g \in 1..Len(generated) : Resolve(all_posts, ranked_data[generated[g].rank].id) = j}

\* C18: whatever the ranked list, no post has its full content written more
\* than once in a run, and no post is sent to generation more than once.
C18_EnrichedOnce ==
    \A j \in 1..Len(all_posts) :
        /\ all_posts[j].enriched <= 1
        /\ Cardinality(GenerationsFor(j)) <= 1

====
